---- MODULE Spec2Model ----
(***************************************************************************)
(* Model of src/main.py: the pond-analysis pipeline of AquacultureManager,  *)
(* the weather collaborator WeatherAPI.get_weather_data and the Flask       *)
(* endpoint analyze_pond.                                                   *)
(*                                                                          *)
(* Numbers are fixed-point integers, so that every rounding point of the    *)
(* code is an exact operation of the model:                                 *)
(*   area              m^2 (whole square metres)                            *)
(*   depth             tenths of a metre        (0.8 m  is 8)               *)
(*   ph                tenths of a pH unit      (6.5    is 65)              *)
(*   secchi_disk       cm                                                   *)
(*   temperature       degrees Celsius                                      *)
(*   dates, the clock  days (timedelta.days is the floor of a difference)   *)
(*   growth rates      5e-7 g/day before rounding, 1e-4 g after round(.,4)  *)
(*   survival_rate     hundredths                                           *)
(*   population        hundredths of an animal before round()               *)
(*   estimated_biomass 1e-5 kg   (round(grams, 2) / 1000)                   *)
(*   max_biomass, volume, daily_feed_kg    hundredths                       *)
(*                                                                          *)
(* The code computes in binary floating point.  Where the decimal value to  *)
(* be rounded lies exactly between two neighbours, the binary value lies    *)
(* on one side or the other of it, so round() can go either way: the model  *)
(* leaves that direction open (fp_ties) and fixes it once it was taken,     *)
(* since the same arithmetic on the same values always gives the same       *)
(* result.  round(x) of a value that ends in .5 is exact and goes to even.  *)
(***************************************************************************)
EXTENDS Integers, Sequences, FiniteSets, TLC

VARIABLES
    pc,               \* position of the request in the endpoint / of the harness
    payload,          \* shape of the request body: "ok", "unparsable", "illtyped"
    pond,             \* PondParameters built at line 323
    now,              \* the wall clock, datetime.now(), in days
    validated_at,     \* clock value read by validate_input (line 108), -1 before
    errors,           \* list returned by validate_input
    outcome,          \* what the weather request did (requests.get, line 50)
    weather,          \* weather_data (line 329): None or a WeatherData
    invoked,          \* downstream steps the endpoint has invoked so far
    days_of_culture,  \* local of analyze_pond (line 115), -1 before
    survival_days,    \* local `days` of _estimate_survival_rate (line 205)
    confidence_days,  \* local days_of_culture of _calculate_confidence (line 303)
    growth_prediction,\* local of analyze_pond (line 118)
    partial,          \* locals of analyze_pond assigned at lines 120-129
    report,           \* the dict analyze_pond returns (lines 131-141)
    first,            \* report of an earlier invocation with the same arguments
    pond_analyses,    \* the documents of the collection db.pond_analyses
    fp_ties,          \* how round(., n) fell at a decimal tie, per rounding point
    response          \* what the endpoint returned: status and body

vars == <<pc, payload, pond, now, validated_at, errors, outcome, weather,
          invoked, days_of_culture, survival_days, confidence_days,
          growth_prediction, partial, report, first, pond_analyses,
          fp_ties, response>>

\* At most this many day boundaries pass while one behaviour runs.
MaxTicks == 2

\* Python's None, for the locals and results that hold a dict or an object.
None == [kind |-> "None"]

---------------------------------------------------------------------------
(* Rounding.                                                               *)

\* n / d rounded to the nearest integer, ties to even; n >= 0, d > 0.
RoundDiv(n, d) ==
    LET q == n \div d
        r == n % d
    IN  IF 2 * r < d THEN q
        ELSE IF 2 * r > d THEN q + 1
        ELSE IF q % 2 = 0 THEN q ELSE q + 1

\* The rounding points whose decimal value can be an exact tie.
Sites == {"estimated_size", "estimated_biomass", "daily_feed_kg"}
Unresolved == [s \in Sites |-> "unresolved"]

\* The directions a run can still take, given the ones it has taken.
Resolutions(taken) ==
    {fp \in [Sites -> {"down", "up"}] :
        \A s \in Sites : taken[s] # "unresolved" => fp[s] = taken[s]}

\* The directions taken, after the sites `tied` were rounded as fp says.
Remember(taken, fp, tied) ==
    [s \in Sites |-> IF s \in tied /\ taken[s] = "unresolved" THEN fp[s] ELSE taken[s]]

IsTie(n, d) == 2 * (n % d) = d

\* n / d rounded to the nearest integer, a tie in the direction dir.
RoundTie(n, d, dir) ==
    LET q == n \div d
        r == n % d
    IN  IF 2 * r < d THEN q
        ELSE IF 2 * r > d THEN q + 1
        ELSE IF dir = "up" THEN q + 1 ELSE q

\* (x * y) / d as RoundTie rounds it, without forming the product x * y.
MulIsTie(x, y, d) == 2 * (((x % d) * y) % d) = d

MulRoundTie(x, y, d, dir) ==
    LET whole == (x \div d) * y + ((x % d) * y) \div d
        r     == ((x % d) * y) % d
    IN  IF 2 * r < d THEN whole
        ELSE IF 2 * r > d THEN whole + 1
        ELSE IF dir = "up" THEN whole + 1 ELSE whole

---------------------------------------------------------------------------
(* AquacultureManager.__init__                                             *)

VALID_INPUTS ==
    [water_color     |-> {"Clear", "Green", "Brown", "Other"},
     shrimp_behavior |-> {"Active", "Lethargic", "Coming to Surface"}]

MEASUREMENT_RANGES ==
    [secchi_disk      |-> <<10, 60>>,
     ph               |-> <<60, 90>>,
     area             |-> <<100, 10000>>,
     depth            |-> <<8, 25>>,
     stocking_density |-> <<15, 150>>]

\* Iteration order of the two dicts (insertion order).
CategoricalFields == <<"water_color", "shrimp_behavior">>
NumericFields == <<"secchi_disk", "ph", "area", "depth", "stocking_density">>

---------------------------------------------------------------------------
(* AquacultureManager.validate_input                                       *)

\* The open interval instead of the closed one.
InRangeExclusive(value, range) == range[1] < value /\ value < range[2]

\* `min_val <= value <= max_val` (line 104): both bounds are admissible.
InRange(value, range) == range[1] <= value /\ value <= range[2]

\* One appended message per failed check; a message is identified by the
\* check that produced it.
CategoricalError(field) == [check |-> "Invalid", field |-> field]
RangeError(measure) == [check |-> "must be between", field |-> measure]
DateError == [check |-> "future", field |-> "culture_start_date"]

RECURSIVE CategoricalErrors(_, _)
CategoricalErrors(p, i) ==
    IF i > Len(CategoricalFields) THEN <<>>
    ELSE LET field == CategoricalFields[i]
         IN  (IF p[field] \notin VALID_INPUTS[field]
              THEN <<CategoricalError(field)>> ELSE <<>>)
             \o CategoricalErrors(p, i + 1)

RECURSIVE NumericErrors(_, _)
NumericErrors(p, i) ==
    IF i > Len(NumericFields) THEN <<>>
    ELSE LET measure == NumericFields[i]
         IN  (IF ~InRange(p[measure], MEASUREMENT_RANGES[measure])
              THEN <<RangeError(measure)>> ELSE <<>>)
             \o NumericErrors(p, i + 1)

validate_input(p, clock) ==
    CategoricalErrors(p, 1) \o NumericErrors(p, 1)
    \o (IF p.culture_start_date > clock THEN <<DateError>> ELSE <<>>)

---------------------------------------------------------------------------
(* WeatherAPI.get_weather_data                                             *)

\* A WeatherData.  The dataclass does not check the type of its fields, so
\* temperature is whatever JSON value the body held under current.temp_c;
\* temp_is_number tells whether that value can be compared with a number.
WeatherData(t) == [kind |-> "WeatherData", temperature |-> t, temp_is_number |-> TRUE]
IllTypedWeatherData == [kind |-> "WeatherData", temperature |-> 0, temp_is_number |-> FALSE]

\* Temperatures a well-formed body can carry: both sides of `< 25` and of
\* `> 32`, the two thresholds included.
Temperatures == {24, 25, 32, 33}

\* Everything requests.get and the parsing of its response can do.  The
\* first five raise inside the try block or take its else branch; a body
\* that parses and holds every key is turned into a WeatherData as it is.
Unavailable == {"transport exception", "timeout", "status not 200",
                "body not JSON", "body lacks a key"}
Outcomes == {[result |-> u] : u \in Unavailable}
            \cup {[result |-> "body has a non-numeric temp_c"]}
            \cup {[result |-> "ok", temp_c |-> t] : t \in Temperatures}

get_weather_data(o) ==
    IF o.result \in Unavailable THEN None
    ELSE IF o.result = "ok" THEN WeatherData(o.temp_c)
    ELSE IllTypedWeatherData

\* `if weather:` and `if not weather:` -- an object of a dataclass is truthy.
Truthy(w) == w # None

---------------------------------------------------------------------------
(* AquacultureManager._assess_water_quality                                *)

_assess_water_quality(p) ==
    LET ph_issue == IF ~(65 <= p.ph /\ p.ph <= 85)
                    THEN <<"pH out of optimal range">> ELSE <<>>
        secchi_issue == IF p.secchi_disk < 20
                        THEN <<"Water transparency is too low">> ELSE <<>>
        issues == ph_issue \o secchi_issue
    IN  [status |-> IF issues = <<>> THEN "Good" ELSE "Poor", issues |-> issues]

---------------------------------------------------------------------------
(* AquacultureManager._predict_growth                                      *)

\* The three factors, in hundredths.
density_factor(p) ==
    IF p.stocking_density < 50 THEN 110
    ELSE IF p.stocking_density > 100 THEN 90 ELSE 100

depth_factor(p) ==
    IF p.depth < 12 THEN 90
    ELSE IF p.depth > 18 THEN 95 ELSE 100

temp_factor(w) ==
    IF Truthy(w)
    THEN IF w.temperature < 25 THEN 80
         ELSE IF w.temperature > 32 THEN 70 ELSE 100
    ELSE 100

\* base_growth is 0.028 = 28e-3; the product of the hundredths is in 1e-9
\* g/day and always a multiple of 500, so the quotient is exact (5e-7 g/day).
adjusted_growth(p, w) ==
    (28 * density_factor(p) * depth_factor(p) * temp_factor(w)) \div 500

\* `weather.temperature < 25` raises TypeError when temperature is no number.
predict_growth_raises(w) == Truthy(w) /\ ~w.temp_is_number

\* 1e-4 g is 200 units of 5e-7 g; the 0.002 g postlarva is 4000 units.
size_unrounded(p, w, days) == 4000 + adjusted_growth(p, w) * days

\* estimated_size rounded to 1 decimal instead of 4.
_predict_growth_round1(p, w, days, fp) ==
    [daily_growth   |-> RoundDiv(adjusted_growth(p, w), 200),
     weekly_growth  |-> RoundDiv(adjusted_growth(p, w) * 7, 200),
     estimated_size |-> 1000 * RoundTie(size_unrounded(p, w, days), 200000,
                                        fp["estimated_size"])]

_predict_growth(p, w, days, fp) ==
    [daily_growth   |-> RoundDiv(adjusted_growth(p, w), 200),
     weekly_growth  |-> RoundDiv(adjusted_growth(p, w) * 7, 200),
     estimated_size |-> RoundTie(size_unrounded(p, w, days), 200,
                                 fp["estimated_size"])]

---------------------------------------------------------------------------
(* AquacultureManager._estimate_survival_rate, _estimate_biomass           *)

\* 0.85, times 0.95, times 0.98, in 1e-6, rounded to hundredths.  `days` is
\* computed inside the method from a clock read of its own (line 205).
_estimate_survival_rate(p, days) ==
    RoundDiv(85 * (IF p.stocking_density > 100 THEN 95 ELSE 100)
                * (IF days > 60 THEN 98 ELSE 100), 10000)

\* estimated_population of line 192: area * stocking_density * survival_rate,
\* not rounded, in hundredths of an animal.
population_unrounded(p, survival_rate) ==
    p.area * p.stocking_density * survival_rate

\* The biomass is computed from the unrounded product of line 192 (line 200),
\* the reported population is that product rounded (line 196).
_estimate_biomass(p, growth, days, fp) ==
    LET survival_rate == _estimate_survival_rate(p, days)
        estimated_population == population_unrounded(p, survival_rate)
    IN  [estimated_population |-> RoundDiv(estimated_population, 100),
         survival_rate        |-> survival_rate,
         estimated_biomass    |->
             MulRoundTie(estimated_population, growth.estimated_size, 10000,
                         fp["estimated_biomass"])]

---------------------------------------------------------------------------
(* AquacultureManager._calculate_carrying_capacity, _calculate_feed        *)

\* volume is area * depth in tenths of m^3; times 0.4 it is exact in hundredths.
_calculate_carrying_capacity(p) ==
    [max_biomass |-> p.area * p.depth * 4,
     volume      |-> p.area * p.depth * 10]

feeding_schedule ==
    <<[time |-> "06:00", percentage |-> 15], [time |-> "09:00", percentage |-> 15],
      [time |-> "12:00", percentage |-> 15], [time |-> "15:00", percentage |-> 15],
      [time |-> "18:00", percentage |-> 20], [time |-> "21:00", percentage |-> 20]>>

\* estimated_biomass (1e-5 kg) times 0.03 is in 1e-7 kg; round(., 2).
_calculate_feed(estimated_biomass, fp) ==
    [daily_feed_kg    |-> RoundTie(3 * estimated_biomass, 100000,
                                   fp["daily_feed_kg"]),
     feeding_schedule |-> feeding_schedule]

---------------------------------------------------------------------------
(* AquacultureManager._generate_recommendations                            *)

CapacityItem ==
    [issue |-> "Approaching Carrying Capacity",
     action |-> "Short term: consider partial harvest, increase aeration. Long term: plan water exchange or pond expansion",
     priority |-> "High"]

IssueItem(issue) ==
    [issue |-> issue,
     action |-> "Implement water quality management measures",
     priority |-> "High"]

TemperatureItem ==
    [issue |-> "High Temperature",
     action |-> "Increase aeration and monitor oxygen levels",
     priority |-> "Medium"]

\* estimated_biomass (1e-5 kg) > max_biomass (1e-2 kg) * 0.8
ApproachesCapacity(biomass_estimation, carrying_capacity) ==
    biomass_estimation.estimated_biomass > 800 * carrying_capacity.max_biomass

\* The same items with the temperature check made first.
_generate_recommendations_temperature_first(p, w, water_quality, biomass_estimation, carrying_capacity) ==
    (IF Truthy(w) /\ w.temperature > 32 THEN <<TemperatureItem>> ELSE <<>>)
    \o (IF ApproachesCapacity(biomass_estimation, carrying_capacity)
        THEN <<CapacityItem>> ELSE <<>>)
    \o [i \in 1..Len(water_quality.issues) |-> IssueItem(water_quality.issues[i])]

_generate_recommendations(p, w, water_quality, biomass_estimation, carrying_capacity) ==
    (IF ApproachesCapacity(biomass_estimation, carrying_capacity)
     THEN <<CapacityItem>> ELSE <<>>)
    \o [i \in 1..Len(water_quality.issues) |-> IssueItem(water_quality.issues[i])]
    \o (IF Truthy(w) /\ w.temperature > 32 THEN <<TemperatureItem>> ELSE <<>>)

---------------------------------------------------------------------------
(* AquacultureManager._calculate_confidence                                *)

Max(a, b) == IF a >= b THEN a ELSE b

\* The pH penalty taken at the water-quality threshold 8.5 instead of 8.8.
_calculate_confidence_ph85(p, w, days) ==
    LET c0 == 100
        c1 == IF ~Truthy(w) THEN c0 - 20 ELSE c0
        c2 == IF p.ph < 65 \/ p.ph > 85 THEN c1 - 10 ELSE c1
        c3 == IF p.secchi_disk < 15 \/ p.secchi_disk > 55 THEN c2 - 10 ELSE c2
        c4 == IF p.stocking_density > 120 THEN c3 - 10 ELSE c3
        c5 == IF days > 100 THEN c4 - 5 ELSE c4
    IN  Max(c5, 0)

\* `days` is computed inside the method from a clock read of its own
\* (line 303).
_calculate_confidence(p, w, days) ==
    LET c0 == 100
        c1 == IF ~Truthy(w) THEN c0 - 20 ELSE c0
        c2 == IF p.ph < 65 \/ p.ph > 88 THEN c1 - 10 ELSE c1
        c3 == IF p.secchi_disk < 15 \/ p.secchi_disk > 55 THEN c2 - 10 ELSE c2
        c4 == IF p.stocking_density > 120 THEN c3 - 10 ELSE c3
        c5 == IF days > 100 THEN c4 - 5 ELSE c4
    IN  Max(c5, 0)

---------------------------------------------------------------------------
(* The endpoint analyze_pond (POST /analyze_pond), one request.            *)

\* Request bodies.  "unparsable": request.json, datetime.fromisoformat or
\* PondParameters(**data) raises (lines 315-323).  "illtyped": every field is
\* there and the date parses, but a measurement is no number, so the
\* comparison of line 104 raises TypeError inside validate_input.
Payloads == {"ok", "unparsable", "illtyped"}

\* The ponds of the requests: each measurement inside and outside its range,
\* on both sides of the thresholds the analysis tests; the culture start date
\* is a day relative to the clock's first value 0 (1 is tomorrow).
Ponds ==
    [area               : {99, 101, 1000},
     depth              : {8, 15},
     stocking_density   : {15, 150},
     culture_start_date : {1, 0, -60, -100, -150},
     water_color        : {"Clear", "Purple"},
     shrimp_behavior    : {"Active"},
     secchi_disk        : {15, 30},
     ph                 : {59, 70, 90}]

SomePond == CHOOSE p \in Ponds : TRUE

NoResponse == [status |-> 0]
ClientError(violations) == [status |-> 400, errors |-> violations]
ServerError == [status |-> 500, error |-> "str(e)"]
Success(analysis_result) ==
    [status |-> 200, analysis_result |-> analysis_result, _id |-> "inserted_id"]

\* Nothing has run yet: the clock is at 0, no local is assigned, the
\* collection is empty.
Fresh ==
    /\ now = 0
    /\ validated_at = -1
    /\ errors = <<>>
    /\ outcome = None
    /\ invoked = {}
    /\ days_of_culture = -1
    /\ survival_days = -1
    /\ confidence_days = -1
    /\ growth_prediction = None
    /\ partial = None
    /\ report = None
    /\ first = None
    /\ pond_analyses = {}
    /\ fp_ties = Unresolved
    /\ response = NoResponse

Init ==
    /\ pc = "parse"
    /\ payload \in Payloads
    /\ pond \in (IF payload = "ok" THEN Ponds ELSE {SomePond})
    /\ weather = None
    /\ Fresh

\* The wall clock passes a day boundary; it does so at any point of a run.
Tick ==
    /\ now < MaxTicks
    /\ pc # "done"
    /\ now' = now + 1
    /\ UNCHANGED <<pc, payload, pond, validated_at, errors, outcome, weather,
                   invoked, days_of_culture, survival_days, confidence_days,
                   growth_prediction, partial, report, first, pond_analyses, fp_ties, response>>

\* The except clause of the endpoint (lines 352-354).
Fail ==
    /\ pc' = "done"
    /\ response' = ServerError

\* Lines 315-323: the body is read and the PondParameters built.
Parse ==
    /\ pc = "parse"
    /\ IF payload = "unparsable"
       THEN Fail
       ELSE pc' = "validate" /\ UNCHANGED response
    /\ UNCHANGED <<payload, pond, now, validated_at, errors, outcome, weather,
                   invoked, days_of_culture, survival_days, confidence_days,
                   growth_prediction, partial, report, first, pond_analyses,
                   fp_ties>>

\* The endpoint without the `return` of line 327: the errors are computed
\* and the request goes on.
ValidateWithoutReturn ==
    /\ pc = "validate"
    /\ IF payload = "illtyped"
       THEN Fail /\ UNCHANGED <<errors, validated_at>>
       ELSE /\ errors' = validate_input(pond, now)
            /\ validated_at' = now
            /\ pc' = "weather"
            /\ UNCHANGED response
    /\ UNCHANGED <<payload, pond, now, outcome, weather, invoked,
                   days_of_culture, survival_days, confidence_days,
                   growth_prediction, partial, report, first, pond_analyses,
                   fp_ties>>

\* Lines 325-327: validate_input, and the 400 response when it found errors.
Validate ==
    /\ pc = "validate"
    /\ IF payload = "illtyped"
       THEN Fail /\ UNCHANGED <<errors, validated_at>>
       ELSE /\ errors' = validate_input(pond, now)
            /\ validated_at' = now
            /\ IF errors' # <<>>
               THEN pc' = "done" /\ response' = ClientError(errors')
               ELSE pc' = "weather" /\ UNCHANGED response
    /\ UNCHANGED <<payload, pond, now, outcome, weather, invoked,
                   days_of_culture, survival_days, confidence_days,
                   growth_prediction, partial, report, first, pond_analyses,
                   fp_ties>>

\* Lines 329-330: the weather request; get_weather_data never raises.
FetchWeather ==
    /\ pc = "weather"
    /\ \E o \in Outcomes :
         /\ outcome' = o
         /\ weather' = get_weather_data(o)
    /\ invoked' = invoked \cup {"weather"}
    /\ pc' = "analyze"
    /\ UNCHANGED <<payload, pond, now, validated_at, errors, days_of_culture,
                   survival_days, confidence_days, growth_prediction, partial,
                   report, first, pond_analyses, fp_ties, response>>

\* analyze_pond, lines 115-119: the clock is read and the growth predicted.
\* An exception leaves analyze_pond and reaches the endpoint's except clause.
AnalyzeGrowth ==
    /\ pc = "analyze"
    /\ invoked' = invoked \cup {"analyze"}
    /\ days_of_culture' = now - pond.culture_start_date
    /\ IF predict_growth_raises(weather)
       THEN Fail /\ UNCHANGED <<growth_prediction, fp_ties>>
       ELSE /\ \E fp \in Resolutions(fp_ties) :
                 /\ growth_prediction' =
                        _predict_growth(pond, weather, days_of_culture', fp)
                 /\ fp_ties' = Remember(fp_ties, fp,
                        IF IsTie(size_unrounded(pond, weather, days_of_culture'), 200)
                        THEN {"estimated_size"} ELSE {})
            /\ pc' = "biomass"
            /\ UNCHANGED response
    /\ UNCHANGED <<payload, pond, now, validated_at, errors, outcome, weather,
                   survival_days, confidence_days, partial, report, first,
                   pond_analyses>>

\* analyze_pond, lines 120-129: _estimate_biomass reads the clock again in
\* _estimate_survival_rate (line 205); the steps after it read no clock.
AnalyzeBiomass ==
    /\ pc = "biomass"
    /\ survival_days' = now - pond.culture_start_date
    /\ \E fp \in Resolutions(fp_ties) :
         LET biomass_estimation ==
                 _estimate_biomass(pond, growth_prediction, survival_days', fp)
             water_quality == _assess_water_quality(pond)
             carrying_capacity == _calculate_carrying_capacity(pond)
             tied ==
                 (IF MulIsTie(population_unrounded(pond, biomass_estimation.survival_rate),
                              growth_prediction.estimated_size, 10000)
                  THEN {"estimated_biomass"} ELSE {})
                 \cup (IF IsTie(3 * biomass_estimation.estimated_biomass, 100000)
                       THEN {"daily_feed_kg"} ELSE {})
         IN  /\ partial' =
                   [biomass_estimation     |-> biomass_estimation,
                    water_quality          |-> water_quality,
                    carrying_capacity      |-> carrying_capacity,
                    feeding_recommendation |->
                        _calculate_feed(biomass_estimation.estimated_biomass, fp),
                    recommendations        |->
                        _generate_recommendations(pond, weather, water_quality,
                            biomass_estimation, carrying_capacity)]
             /\ fp_ties' = Remember(fp_ties, fp, tied)
    /\ pc' = "confidence"
    /\ UNCHANGED <<payload, pond, now, validated_at, errors, outcome, weather,
                   invoked, days_of_culture, confidence_days, growth_prediction,
                   report, first, pond_analyses, response>>

\* analyze_pond, lines 131-141: _calculate_confidence reads the clock a third
\* time (line 303) while the returned dict is built.
AnalyzeConfidence ==
    /\ pc = "confidence"
    /\ confidence_days' = now - pond.culture_start_date
    /\ report' =
         [days_of_culture        |-> days_of_culture,
          growth_prediction      |-> growth_prediction,
          biomass_estimation     |-> partial.biomass_estimation,
          water_quality          |-> partial.water_quality,
          carrying_capacity      |-> partial.carrying_capacity,
          feeding_recommendation |-> partial.feeding_recommendation,
          recommendations        |-> partial.recommendations,
          confidence_score       |->
              _calculate_confidence(pond, weather, confidence_days')]
    /\ pc' = "analyzed"
    /\ UNCHANGED <<payload, pond, now, validated_at, errors, outcome, weather,
                   invoked, days_of_culture, survival_days, growth_prediction,
                   partial, first, pond_analyses, fp_ties, response>>

Document(analysis_result) ==
    [pond_params |-> pond, weather_data |-> weather,
     analysis_result |-> analysis_result]

\* The endpoint with a failure of insert_one swallowed: 200 either way.
StoreIgnoringFailure ==
    /\ pc = "analyzed"
    /\ invoked' = invoked \cup {"store"}
    /\ \E inserted \in BOOLEAN :
         /\ pond_analyses' = IF inserted THEN pond_analyses \cup {Document(report)}
                             ELSE pond_analyses
         /\ pc' = "done"
         /\ response' = Success(report)
    /\ UNCHANGED <<payload, pond, now, validated_at, errors, outcome, weather,
                   days_of_culture, survival_days, confidence_days,
                   growth_prediction, partial, report, first, fp_ties>>

\* Lines 336-350: the report is stored, then returned with the identifier;
\* insert_one raises when the store fails.
Store ==
    /\ pc = "analyzed"
    /\ invoked' = invoked \cup {"store"}
    /\ \E inserted \in BOOLEAN :
         IF inserted
         THEN /\ pond_analyses' = pond_analyses \cup {Document(report)}
              /\ pc' = "done"
              /\ response' = Success(report)
         ELSE /\ UNCHANGED pond_analyses
              /\ Fail
    /\ UNCHANGED <<payload, pond, now, validated_at, errors, outcome, weather,
                   days_of_culture, survival_days, confidence_days,
                   growth_prediction, partial, report, first, fp_ties>>

Next ==
    \/ Tick
    \/ Parse
    \/ Validate
    \/ FetchWeather
    \/ AnalyzeGrowth
    \/ AnalyzeBiomass
    \/ AnalyzeConfidence
    \/ Store

Spec == Init /\ [][Next]_vars

---------------------------------------------------------------------------
(* validate_input on its own: every measurement at and beyond each bound.  *)

BoundaryPonds ==
    [area               : {99, 100, 10000, 10001},
     depth              : {7, 8, 25, 26},
     stocking_density   : {14, 15, 150, 151},
     culture_start_date : {-1, 0, 1},
     water_color        : {"Clear", "Purple"},
     shrimp_behavior    : {"Coming to Surface", "Sleepy"},
     secchi_disk        : {9, 10, 60, 61},
     ph                 : {59, 60, 90, 91}]

InitValidate ==
    /\ pc = "validate"
    /\ payload = "ok"
    /\ pond \in BoundaryPonds
    /\ weather = None
    /\ Fresh

NextValidate ==
    \/ Tick
    \/ Validate

SpecValidate == InitValidate /\ [][NextValidate]_vars

---------------------------------------------------------------------------
(* analyze_pond invoked twice with the same arguments.                     *)

\* The pond of the specification's end-to-end scenario.
TypicalPond ==
    [area |-> 1000, depth |-> 15, stocking_density |-> 80,
     culture_start_date |-> 0, water_color |-> "Clear",
     shrimp_behavior |-> "Active", secchi_disk |-> 30, ph |-> 75]

Readings == {None} \cup {WeatherData(t) : t \in Temperatures}

InitTwice ==
    /\ pc = "analyze"
    /\ payload = "ok"
    /\ pond \in {p \in Ponds : validate_input(p, 0) = <<>>}
    /\ weather \in Readings
    /\ Fresh

\* The caller keeps the report and calls analyze_pond(pond_params, weather)
\* again (lines 113-114): the locals of the new invocation are unassigned.
Reinvoke ==
    /\ pc = "analyzed"
    /\ first = None
    /\ first' = report
    /\ pc' = "analyze"
    /\ days_of_culture' = -1
    /\ survival_days' = -1
    /\ confidence_days' = -1
    /\ growth_prediction' = None
    /\ partial' = None
    /\ report' = None
    /\ UNCHANGED <<payload, pond, now, validated_at, errors, outcome, weather,
                   invoked, pond_analyses, fp_ties, response>>

NextTwice ==
    \/ Tick
    \/ AnalyzeGrowth
    \/ AnalyzeBiomass
    \/ AnalyzeConfidence
    \/ Reinvoke

SpecTwice == InitTwice /\ [][NextTwice]_vars

---------------------------------------------------------------------------
(* _calculate_confidence on its own.                                       *)

ConfidencePonds ==
    {[TypicalPond EXCEPT !.ph = a, !.secchi_disk = b, !.stocking_density = c,
                         !.culture_start_date = d] :
        a \in {64, 65, 70, 88, 89}, b \in {14, 15, 30, 55, 56},
        c \in {120, 121, 130}, d \in {-50, -100}}

InitConfidence ==
    /\ pc = "call"
    /\ payload = "ok"
    /\ pond \in ConfidencePonds
    /\ weather \in {None, WeatherData(28)}
    /\ Fresh

\* _calculate_confidence(pond_params, weather), lines 287-308, with its
\* clock read of line 303.
CallConfidence ==
    /\ pc = "call"
    /\ confidence_days' = now - pond.culture_start_date
    /\ report' = [confidence_score |->
                     _calculate_confidence(pond, weather, confidence_days')]
    /\ pc' = "returned"
    /\ UNCHANGED <<payload, pond, now, validated_at, errors, outcome, weather,
                   invoked, days_of_culture, survival_days, growth_prediction,
                   partial, first, pond_analyses, fp_ties, response>>

NextConfidence ==
    \/ Tick
    \/ CallConfidence

SpecConfidence == InitConfidence /\ [][NextConfidence]_vars

---------------------------------------------------------------------------
(* _predict_growth on its own, at two culture ages.                        *)

\* The culture ages compared run from 0 to this many days.
MaxDays == 30

GrowthPonds ==
    {[TypicalPond EXCEPT !.stocking_density = c, !.depth = d] :
        c \in {49, 50, 100, 101}, d \in {11, 12, 18, 19}}

InitGrowth ==
    /\ pc = "call"
    /\ payload = "ok"
    /\ pond \in GrowthPonds
    /\ weather \in Readings
    /\ Fresh

\* _predict_growth(pond_params, weather, days), lines 157-187, for a culture
\* age d1 and for a later one d2; `first` keeps the earlier call.  The two
\* roundings fall independently where they tie.
CallPredictGrowth ==
    /\ pc = "call"
    /\ \E d1, d2 \in 0..MaxDays :
         /\ d1 < d2
         /\ \E dir1, dir2 \in {"down", "up"} :
              /\ first' = [days |-> d1,
                           growth_prediction |->
                               _predict_growth(pond, weather, d1,
                                               [s \in Sites |-> dir1])]
              /\ growth_prediction' =
                     _predict_growth(pond, weather, d2, [s \in Sites |-> dir2])
         /\ days_of_culture' = d2
    /\ pc' = "returned"
    /\ UNCHANGED <<payload, pond, now, validated_at, errors, outcome, weather,
                   invoked, survival_days, confidence_days, partial, report,
                   pond_analyses, fp_ties, response>>

NextGrowth ==
    \/ CallPredictGrowth

SpecGrowth == InitGrowth /\ [][NextGrowth]_vars

---------------------------------------------------------------------------
(* The endpoint's properties.                                              *)

Responded == pc = "done"

\* C1: when validate_input returns a non-empty list, the request invokes no
\* downstream step (no weather request, no analysis, no store) and ends with
\* the 400 response that carries the whole list.
C1_ViolationsHaltTheRequest ==
    errors # <<>> =>
        /\ invoked = {}
        /\ outcome = None
        /\ days_of_culture = -1 /\ report = None
        /\ pond_analyses = {}
        /\ Responded
        /\ response.status = 400
        /\ response.errors = errors

C1_Witness ==
    /\ Responded
    /\ Len(errors) >= 3
    /\ response.status = 400

\* C2: in one invocation of analyze_pond the days of culture reported, the
\* one behind estimated_size, the one _estimate_survival_rate tests against
\* 60 and the one _calculate_confidence tests against 100 are one integer.
C2_OneClockReadPerInvocation ==
    report # None =>
        /\ report.days_of_culture = days_of_culture
        /\ survival_days = days_of_culture
        /\ confidence_days = days_of_culture

\* C5: whatever made the weather unavailable (transport exception, timeout,
\* status other than 200, malformed body), get_weather_data returns None,
\* the analysis runs to a report, and the report has the neutral temperature
\* factor, the 20-point deduction and no 'High Temperature' item.
NeutralDailyGrowth(p) ==
    RoundDiv((28 * density_factor(p) * depth_factor(p) * 100) \div 500, 200)

OtherPenalties(p, days) ==
    (IF p.ph < 65 \/ p.ph > 88 THEN 10 ELSE 0)
    + (IF p.secchi_disk < 15 \/ p.secchi_disk > 55 THEN 10 ELSE 0)
    + (IF p.stocking_density > 120 THEN 10 ELSE 0)
    + (IF days > 100 THEN 5 ELSE 0)

C5_UnavailableWeatherIsNoError ==
    (outcome # None /\ outcome.result # "ok") =>
        /\ weather = None
        /\ ~(Responded /\ response.status = 500 /\ "store" \notin invoked)
        /\ report # None =>
            /\ report.growth_prediction.daily_growth = NeutralDailyGrowth(pond)
            /\ report.confidence_score = 100 - 20 - OtherPenalties(pond, confidence_days)
            /\ \A i \in 1..Len(report.recommendations) :
                  report.recommendations[i].issue # "High Temperature"

\* C7: a validation failure is answered 400 with the list; a failure after
\* validation passed (the store's, or an exception in the analysis) is
\* answered 500, never 400 and never 200; 200 is answered only once the
\* store has taken the document of that request, with the report and the
\* identifier.
AnalysisRaised == Responded /\ "analyze" \in invoked /\ report = None
StoreFailed == Responded /\ "store" \in invoked /\ pond_analyses = {}

C7_ThreeOutcomesDistinct ==
    /\ (Responded /\ errors # <<>>) =>
          response = [status |-> 400, errors |-> errors]
    /\ (AnalysisRaised \/ StoreFailed) =>
          /\ errors = <<>>
          /\ response.status = 500
          /\ DOMAIN response = {"status", "error"}
    /\ (Responded /\ response.status = 200) =>
          /\ errors = <<>> /\ validated_at # -1
          /\ "store" \in invoked
          /\ response.analysis_result = report /\ report # None
          /\ response._id = "inserted_id"
          /\ [pond_params |-> pond, weather_data |-> weather,
              analysis_result |-> report] \in pond_analyses
    /\ (Responded /\ response.status = 400) => errors # <<>>

C7_Witness == StoreFailed /\ report # None /\ response.status = 500

\* C9: the recommendations are, in this order, the 'Approaching Carrying
\* Capacity' item (High) iff estimated_biomass > 0.8 * max_biomass, one High
\* item per water-quality issue in the order of the issues ('pH out of
\* optimal range' before 'Water transparency is too low'), and last the
\* 'High Temperature' item (Medium) iff there is weather hotter than 32; the
\* list is empty exactly when none applies, and no Medium item precedes a
\* High one.
C9_RecommendationsInFixedOrder ==
    partial # None =>
        LET recs   == partial.recommendations
            issues == partial.water_quality.issues
            cap == partial.biomass_estimation.estimated_biomass * 10
                     > 8 * (partial.carrying_capacity.max_biomass * 1000)
            hot == weather # None /\ weather.temperature > 32
            ph_bad == pond.ph < 65 \/ pond.ph > 85
            murky  == pond.secchi_disk < 20
            off == IF cap THEN 1 ELSE 0
        IN  /\ issues = (IF ph_bad THEN <<"pH out of optimal range">> ELSE <<>>)
                        \o (IF murky THEN <<"Water transparency is too low">> ELSE <<>>)
            /\ Len(recs) = off + Len(issues) + (IF hot THEN 1 ELSE 0)
            /\ cap => /\ recs[1].issue = "Approaching Carrying Capacity"
                      /\ recs[1].priority = "High"
            /\ \A i \in 1..Len(issues) :
                  /\ recs[off + i].issue = issues[i]
                  /\ recs[off + i].priority = "High"
            /\ hot => /\ recs[Len(recs)].issue = "High Temperature"
                      /\ recs[Len(recs)].priority = "Medium"
            /\ (recs = <<>>) <=> (~cap /\ issues = <<>> /\ ~hot)
            /\ \A i, j \in 1..Len(recs) :
                  i < j => ~(recs[i].priority = "Medium" /\ recs[j].priority = "High")

C9_Witness ==
    /\ partial # None
    /\ Len(partial.recommendations) = 4
    /\ partial.recommendations[4].priority = "Medium"

\* C10: estimated_biomass is round(estimated_population * estimated_size, 2)
\* / 1000 of the reported, rounded population, and daily_feed_kg is
\* round(estimated_biomass * 0.03, 2) of the reported biomass.
C10_BiomassFromRoundedPopulation ==
    report # None =>
        LET b == report.biomass_estimation
            g == report.growth_prediction
        IN  /\ b.estimated_population
                 = RoundDiv(pond.area * pond.stocking_density * b.survival_rate, 100)
            /\ \E dir \in {"down", "up"} :
                  b.estimated_biomass
                    = MulRoundTie(100 * b.estimated_population, g.estimated_size,
                                  10000, dir)
            /\ \E dir \in {"down", "up"} :
                  report.feeding_recommendation.daily_feed_kg
                    = RoundTie(3 * b.estimated_biomass, 100000, dir)

---------------------------------------------------------------------------
(* The properties of the parts.                                            *)

\* C3: two invocations of analyze_pond with the same PondParameters and the
\* same weather return reports equal in every field, whatever happens
\* between them.
C3_SameArgumentsSameReport ==
    (pc = "analyzed" /\ first # None) => report = first

\* C4: validate_input makes every check and appends one message per failed
\* check: a measurement at either bound of its range (secchi_disk 10..60,
\* ph 6.0..9.0, area 100..10000, depth 0.8..2.5, stocking_density 15..150)
\* gives none, one beyond a bound gives exactly one; an unknown water_color
\* or shrimp_behavior and a culture_start_date after the clock give one
\* each; the list is as long as the number of failed checks.
Admissible(measure, value) ==
    CASE measure = "secchi_disk"      -> 10 <= value /\ value <= 60
      [] measure = "ph"               -> 60 <= value /\ value <= 90
      [] measure = "area"             -> 100 <= value /\ value <= 10000
      [] measure = "depth"            -> 8 <= value /\ value <= 25
      [] measure = "stocking_density" -> 15 <= value /\ value <= 150

FailedChecks(p, clock) ==
    {m \in {"secchi_disk", "ph", "area", "depth", "stocking_density"} :
        ~Admissible(m, p[m])}
    \cup (IF p.water_color \in {"Clear", "Green", "Brown", "Other"}
          THEN {} ELSE {"water_color"})
    \cup (IF p.shrimp_behavior \in {"Active", "Lethargic", "Coming to Surface"}
          THEN {} ELSE {"shrimp_behavior"})
    \cup (IF p.culture_start_date > clock THEN {"culture_start_date"} ELSE {})

C4_OneMessagePerFailedCheck ==
    validated_at # -1 =>
        LET failed == FailedChecks(pond, validated_at)
        IN  /\ \A f \in {"secchi_disk", "ph", "area", "depth", "stocking_density",
                         "water_color", "shrimp_behavior", "culture_start_date"} :
                  Cardinality({i \in 1..Len(errors) : errors[i].field = f})
                    = IF f \in failed THEN 1 ELSE 0
            /\ Len(errors) = Cardinality(failed)
            /\ (errors = <<>>) <=> (failed = {})

C4_Witness ==
    /\ validated_at # -1
    /\ pond.area = 100 /\ pond.depth = 25 /\ pond.secchi_disk = 61
    /\ pond.ph = 59 /\ pond.stocking_density = 150
    /\ pond.culture_start_date = validated_at
    /\ Len(errors) = 3

\* C6: _calculate_confidence returns an integer of 0..100 that is 100 minus
\* the penalties triggered (20 weather absent; 10 ph < 6.5 or > 8.8; 10
\* secchi_disk < 15 or > 55; 10 stocking_density > 120; 5 days > 100); an
\* input that triggers more penalties never scores higher; and density 130,
\* ph 7, secchi 30, no weather, 50 days scores 70.
Triggered(p, w, days) ==
    (IF w = None THEN {"weather"} ELSE {})
    \cup (IF p.ph < 65 \/ p.ph > 88 THEN {"ph"} ELSE {})
    \cup (IF p.secchi_disk < 15 \/ p.secchi_disk > 55 THEN {"secchi_disk"} ELSE {})
    \cup (IF p.stocking_density > 120 THEN {"stocking_density"} ELSE {})
    \cup (IF days > 100 THEN {"days"} ELSE {})

Penalty(t) ==
    (IF "weather" \in t THEN 20 ELSE 0) + (IF "ph" \in t THEN 10 ELSE 0)
    + (IF "secchi_disk" \in t THEN 10 ELSE 0)
    + (IF "stocking_density" \in t THEN 10 ELSE 0)
    + (IF "days" \in t THEN 5 ELSE 0)

C6_ConfidenceIsHundredMinusPenalties ==
    pc = "returned" =>
        LET score == report.confidence_score
            mine  == Triggered(pond, weather, confidence_days)
        IN  /\ score \in 0..100
            /\ score = 100 - Penalty(mine)
            /\ \A q \in ConfidencePonds, w \in {None, WeatherData(28)},
                  d \in {confidence_days, 50, 101} :
                  mine \subseteq Triggered(q, w, d)
                    => _calculate_confidence(q, w, d) <= score
            /\ (pond.stocking_density = 130 /\ pond.ph = 70
                /\ pond.secchi_disk = 30 /\ weather = None
                /\ confidence_days = 50) => score = 70

C6_Witness ==
    /\ pc = "returned"
    /\ pond.stocking_density = 130 /\ pond.ph = 70 /\ pond.secchi_disk = 30
    /\ weather = None /\ confidence_days = 50
    /\ report.confidence_score = 70

\* C8: for a fixed pond and fixed weather, and culture ages 0 <= d1 < d2,
\* the estimated_size for d2 is strictly greater than the one for d1, after
\* the rounding to 4 decimals, whatever the three factors are.
C8_SizeGrowsWithAge ==
    pc = "returned" =>
        /\ 0 <= first.days /\ first.days < days_of_culture
        /\ growth_prediction.estimated_size
             > first.growth_prediction.estimated_size

C8_Witness ==
    /\ pc = "returned"
    /\ days_of_culture = first.days + 1
    /\ adjusted_growth(pond, weather) = (28 * 90 * 90 * 70) \div 500
    /\ growth_prediction.estimated_size
         > first.growth_prediction.estimated_size

====
